---------------------------- MODULE Spec2Model ----------------------------
(***************************************************************************)
(* A model of src/main.py (class Cell, class Game): the validity check,    *)
(* the backtracking solvability search, the random generator with its      *)
(* masking step, and the key / mouse handlers.                             *)
(*                                                                         *)
(* Scale.  The program's board is 9x9 with 3x3 blocks, digits 1..9 and 30  *)
(* givens.  The model keeps every formula of the code but evaluates it on  *)
(* a board of BLOCK*BLOCK rows, with BLOCK = 2 (a 4x4 board, 2x2 blocks,   *)
(* digits 1..4) and keep_num_of_cells = 13 of 16 cells.                    *)
(*                                                                         *)
(* Randomness.  random.shuffle is a Fisher-Yates shuffle driven by the     *)
(* state of the module-level generator.  The generator is modelled as a    *)
(* small linear congruential generator whose state is part of the model;   *)
(* a handler's call is given the generator in a state 0..MaxSeed, and the  *)
(* step-by-step search starts from every state 0..RngMod-1.                *)
(*                                                                         *)
(* Cells.  A Cell object is its position (i, j); each field of Cell is a   *)
(* function of the position: val[i][j] is table[i][j].val, and so on.      *)
(***************************************************************************)
EXTENDS Integers, Sequences, FiniteSets, TLC

\* ------------------------------------------------------------ constants
\* main.py:11
EMPTY_VAL == -1
\* main.py:97 (the literal 3 of i // 3 * 3 + j // 3), scaled to 2
BLOCK == 2
\* main.py:89 (range(9)), scaled: the side of the board
N == BLOCK * BLOCK
\* main.py:141, scaled to the 16-cell board
keep_num_of_cells == 13
\* the seeds of the random generator that Init draws from
MaxSeed == 1
\* the modulus of the modelled random generator
RngMod == 24
\* the most cells emptied in a board the pure checks are called on
MaxBlank == 3

Idx == 0 .. (N - 1)
Digits == 1 .. N
Pos == Idx \X Idx

\* ------------------------------------------------------------ random
\* the generator's next state
NextRng(g) == (g * 13 + 7) % RngMod

\* random.randbelow(k) on generator state g: the number drawn
RandBelow(g, k) == g % k

RECURSIVE ShuffleFrom(_, _, _)
\* random.shuffle's loop: for i = n-1 down to 1, swap x[i] with x[randbelow(i+1)]
\* (sequences are 1-based here: position i+1 of the 0-based list is i+1)
ShuffleFrom(x, i, g) ==
    IF i < 1 THEN [seq |-> x, rng |-> g]
    ELSE LET j == RandBelow(g, i + 1)
             y == [x EXCEPT ![i + 1] = x[j + 1], ![j + 1] = x[i + 1]]
         IN ShuffleFrom(y, i - 1, NextRng(g))

\* random.shuffle(x) with the generator in state g
Shuffle(x, g) == ShuffleFrom(x, Len(x) - 1, g)

\* ------------------------------------------------------------ Cell
\* generate_table lines 131-135 with Cell.val's default: every cell EMPTY_VAL
NewVal == [i \in Idx |-> [j \in Idx |-> EMPTY_VAL]]

\* a Cell field that is b in every cell
AllCells(b) == [i \in Idx |-> [j \in Idx |-> b]]

\* Cell.is_empty, for the cell at (i, j) of t
is_empty(t, i, j) == t[i][j] = EMPTY_VAL

\* ------------------------------------------------------------ validity
\* BlockOf with j % 3 for j // 3
BlockOf_Mod(i, j) == (i \div BLOCK) * BLOCK + (j % BLOCK)

\* the index of the block of (i, j)
BlockOf(i, j) == (i \div BLOCK) * BLOCK + (j \div BLOCK)

RECURSIVE ScanValid(_, _, _, _, _)
\* the scan of is_sudoku_valid from cell number k (row-major) on, with the
\* seen-sets rows, cols, blocks filled by the cells before k
ScanValid(t, k, rows, cols, blocks) ==
    IF k >= N * N THEN TRUE
    ELSE LET i == k \div N
             j == k % N
             v == t[i][j]
             b == BlockOf(i, j)
         IN IF is_empty(t, i, j) THEN ScanValid(t, k + 1, rows, cols, blocks)
            ELSE IF v \in rows[i] \/ v \in cols[j] \/ v \in blocks[b]
                 THEN FALSE
                 ELSE ScanValid(t, k + 1,
                                [rows EXCEPT ![i] = @ \cup {v}],
                                [cols EXCEPT ![j] = @ \cup {v}],
                                [blocks EXCEPT ![b] = @ \cup {v}])

\* Game.is_sudoku_valid on the cell values t
is_sudoku_valid(t) ==
    ScanValid(t, 0, [i \in Idx |-> {}], [i \in Idx |-> {}], [i \in Idx |-> {}])

\* ------------------------------------------------------------ search
\* vals = [i for i in range(1, 10)]
RangeVals == [k \in 1 .. N |-> k]

RECURSIVE backtracing(_, _, _, _)
RECURSIVE TryVals(_, _, _, _, _, _)
\* TryVals that returns True without setting the cell back to EMPTY_VAL
TryVals_NoUndoOnSuccess(t, i, j, vals, k, g) ==
    IF k > Len(vals) THEN [ret |-> FALSE, val |-> t, rng |-> g]
    ELSE LET r == backtracing([t EXCEPT ![i][j] = vals[k]], i, j + 1, g)
         IN IF r.ret THEN r
            ELSE TryVals([r.val EXCEPT ![i][j] = EMPTY_VAL], i, j, vals, k + 1, r.rng)

\* TryVals that stops one value short of the end of vals
TryVals_SkipsLast(t, i, j, vals, k, g) ==
    IF k > Len(vals) - 1 THEN [ret |-> FALSE, val |-> t, rng |-> g]
    ELSE LET r == backtracing([t EXCEPT ![i][j] = vals[k]], i, j + 1, g)
             u == [r.val EXCEPT ![i][j] = EMPTY_VAL]
         IN IF r.ret THEN [ret |-> TRUE, val |-> u, rng |-> r.rng]
            ELSE TryVals(u, i, j, vals, k + 1, r.rng)

\* the for-loop of backtracing over vals[k..], at the empty cell (i, j)
TryVals(t, i, j, vals, k, g) ==
    IF k > Len(vals) THEN [ret |-> FALSE, val |-> t, rng |-> g]
    ELSE LET r == backtracing([t EXCEPT ![i][j] = vals[k]], i, j + 1, g)
             u == [r.val EXCEPT ![i][j] = EMPTY_VAL]
         IN IF r.ret THEN [ret |-> TRUE, val |-> u, rng |-> r.rng]
            ELSE TryVals(u, i, j, vals, k + 1, r.rng)

\* backtracing(i0, j0) of is_possible_sudoku_table on cell values t,
\* generator state g: the value returned, the cell values and the generator
\* state on return
backtracing(t, i0, j0, g) ==
    IF ~is_sudoku_valid(t) THEN [ret |-> FALSE, val |-> t, rng |-> g]
    ELSE LET i == IF j0 >= N THEN i0 + 1 ELSE i0
             j == IF j0 >= N THEN 0 ELSE j0
         IN IF i >= N THEN [ret |-> TRUE, val |-> t, rng |-> g]
            ELSE IF ~is_empty(t, i, j) THEN backtracing(t, i, j + 1, g)
            ELSE LET sh == Shuffle(RangeVals, g)
                 IN TryVals(t, i, j, sh.seq, 1, sh.rng)

\* Game.is_possible_sudoku_table
is_possible_sudoku_table(t, g) == backtracing(t, 0, 0, g)

RECURSIVE get_random_table(_, _, _, _)
RECURSIVE GenVals(_, _, _, _, _, _)
\* the for-loop of _get_random_table over vals[k..], at cell (i, j)
GenVals(t, i, j, vals, k, g) ==
    IF k > Len(vals) THEN [ret |-> FALSE, val |-> t, rng |-> g]
    ELSE LET r == get_random_table([t EXCEPT ![i][j] = vals[k]], i, j + 1, g)
         IN IF r.ret THEN r
            ELSE GenVals([r.val EXCEPT ![i][j] = EMPTY_VAL],
                         i, j, vals, k + 1, r.rng)

\* Game._get_random_table(i0, j0) on cell values t, generator state g
get_random_table(t, i0, j0, g) ==
    IF ~is_sudoku_valid(t) THEN [ret |-> FALSE, val |-> t, rng |-> g]
    ELSE LET i == IF j0 >= N THEN i0 + 1 ELSE i0
             j == IF j0 >= N THEN 0 ELSE j0
         IN IF i >= N THEN [ret |-> TRUE, val |-> t, rng |-> g]
            ELSE LET sh == Shuffle(RangeVals, g)
                 IN GenVals(t, i, j, sh.seq, 1, sh.rng)

\* ------------------------------------------------------------ masking
\* all_pos = [(i, j) for i in range(9) for j in range(9)]
all_pos == [k \in 1 .. N * N |-> <<(k - 1) \div N, (k - 1) % N>>]

RECURSIVE MaskFrom_OffByOne(_, _, _, _)
\* MaskFrom with k <= 81 - keep_num_of_cells for k < 81 - keep_num_of_cells
MaskFrom_OffByOne(t, c, ps, k) ==
    IF k >= N * N THEN [val |-> t, is_clickable |-> c]
    ELSE LET i == ps[k + 1][1]
             j == ps[k + 1][2]
         IN IF k <= N * N - keep_num_of_cells
            THEN MaskFrom_OffByOne([t EXCEPT ![i][j] = EMPTY_VAL], c, ps, k + 1)
            ELSE MaskFrom_OffByOne(t, [c EXCEPT ![i][j] = FALSE], ps, k + 1)

RECURSIVE MaskFrom(_, _, _, _)
\* the loop of generate_table over k (0-based) on the shuffled positions ps:
\* the cell values t and the is_clickable flags c when it ends
MaskFrom(t, c, ps, k) ==
    IF k >= N * N THEN [val |-> t, is_clickable |-> c]
    ELSE LET i == ps[k + 1][1]
             j == ps[k + 1][2]
         IN IF k < N * N - keep_num_of_cells
            THEN MaskFrom([t EXCEPT ![i][j] = EMPTY_VAL], c, ps, k + 1)
            ELSE MaskFrom(t, [c EXCEPT ![i][j] = FALSE], ps, k + 1)

\* Game.generate_table with the generator in state g: what _get_random_table
\* returned and left in the cells (ret, full), and the masked table
generate_table(g) ==
    LET r == get_random_table(NewVal, 0, 0, g)
        sh == Shuffle(all_pos, r.rng)
        m == MaskFrom(r.val, AllCells(TRUE), sh.seq, 0)
    IN [ret |-> r.ret, full |-> r.val, val |-> m.val,
        is_clickable |-> m.is_clickable, rng |-> sh.rng]

\* ------------------------------------------------------------ state
None == <<>>

VARIABLES
    val,          \* Cell.val of table[i][j]
    is_clickable, \* Cell.is_clickable of table[i][j]
    is_active,    \* Cell.is_active of table[i][j]
    is_valid,     \* Cell.is_valid of table[i][j]
    active_cell,  \* Game.active_cell: None or the position of a cell
    pc,           \* where the program is
    ret,          \* <<v>>: the last call returned v; <<>> before any return
    full,         \* history: the cell values _get_random_table left
    val0,         \* history: the cell values when the operation began
    own_fail,     \* history: per cell, whether the last solvability check a
                  \* handler ran for the cell (as the active cell) since the
                  \* cell's last edit returned False
    entered,      \* history: per cell, whether the cell's last edit was a
                  \* digit key of the player (not yet reset by a click)
    last_event,   \* history: the last event a handler acted on
    stack,        \* the frames of the search, when it is run step by step
    rng           \* the generator's state, when the search is run step by step

vars == <<val, is_clickable, is_active, is_valid, active_cell, pc, ret,
          full, val0, own_fail, entered, last_event, stack, rng>>

Seeds == 0 .. MaxSeed

\* ------------------------------------------------------------ the game
\* the start of Game.__init__, before generate_table
Init ==
    /\ val = NewVal
    /\ is_clickable = AllCells(TRUE)
    /\ is_active = AllCells(FALSE)
    /\ is_valid = AllCells(TRUE)
    /\ active_cell = None
    /\ pc = "init"
    /\ ret = <<>>
    /\ full = NewVal
    /\ val0 = NewVal
    /\ own_fail = AllCells(FALSE)
    /\ entered = AllCells(FALSE)
    /\ last_event = "none"
    /\ stack = <<>>
    /\ rng = 0

\* Game.__init__: self.generate_table(), the generator in state g
GenerateTable(g) ==
    /\ pc = "init"
    /\ LET r == generate_table(g)
       IN /\ val' = r.val
          /\ is_clickable' = r.is_clickable
          /\ val0' = r.val
          /\ full' = r.full
          /\ ret' = <<r.ret>>
    /\ pc' = "play"
    /\ last_event' = "generate"
    /\ UNCHANGED <<is_active, is_valid, active_cell, own_fail, entered, stack, rng>>

\* the keys of a KEYDOWN event: a digit key, or any other key (0)
Keys == Digits \cup {0}

\* the match statement of the KEYDOWN branch: the cell values after
\* self.active_cell.val = <digit of the key>, when the key is a digit key
KeyAssign(t, i, j, key) ==
    IF key \in Digits THEN [t EXCEPT ![i][j] = key] ELSE t

\* CanEdit without the test of is_clickable
CanEdit_AnyActive == active_cell # None

\* the condition of line 200, negated: there is an active cell and it is
\* clickable
CanEdit ==
    IF active_cell = None THEN FALSE
    ELSE is_clickable[active_cell[1]][active_cell[2]]

\* handle_user_input, event.type == pygame.KEYDOWN with event.key = key, the
\* generator in state g
KeyDown(key, g) ==
    /\ pc = "play"
    /\ CanEdit
    /\ LET i == active_cell[1]
           j == active_cell[2]
           r == is_possible_sudoku_table(KeyAssign(val, i, j, key), g)
       IN /\ val' = r.val
          /\ is_valid' = [is_valid EXCEPT ![i][j] = r.ret]
          /\ ret' = <<r.ret>>
          /\ own_fail' = [own_fail EXCEPT ![i][j] = ~r.ret]
          /\ entered' = IF key \in Digits
                        THEN [entered EXCEPT ![i][j] = TRUE]
                        ELSE entered
    /\ last_event' = "key"
    /\ UNCHANGED <<is_clickable, is_active, active_cell, pc, full, val0,
                   stack, rng>>

\* handle_user_input, event.type == pygame.KEYDOWN with no active cell, or
\* with an active cell that is not clickable: continue
KeyIgnored ==
    /\ pc = "play"
    /\ ~CanEdit
    /\ UNCHANGED vars

\* ClearActive without line 231: is_valid is left as it was
ClearActive_KeepsInvalid(i, j, r) ==
    /\ ret' = <<r.ret>>
    /\ IF ~r.ret
       THEN /\ val' = [r.val EXCEPT ![i][j] = EMPTY_VAL]
            /\ entered' = [entered EXCEPT ![i][j] = FALSE]
       ELSE /\ val' = r.val
            /\ entered' = entered
    /\ is_valid' = is_valid
    /\ own_fail' = [own_fail EXCEPT ![i][j] = FALSE]

\* ClearActive without line 230: the cell keeps its value
ClearActive_KeepsVal(i, j, r) ==
    /\ ret' = <<r.ret>>
    /\ val' = r.val
    /\ is_valid' = IF ~r.ret THEN [is_valid EXCEPT ![i][j] = TRUE] ELSE is_valid
    /\ entered' = entered
    /\ own_fail' = [own_fail EXCEPT ![i][j] = FALSE]

\* lines 226-231 of handle_user_input, run when the clicked point is in a
\* cell: what the handler does to the active cell (i, j) given the result r
\* of is_possible_sudoku_table
ClearActive(i, j, r) ==
    /\ ret' = <<r.ret>>
    /\ IF ~r.ret
       THEN /\ val' = [r.val EXCEPT ![i][j] = EMPTY_VAL]
            /\ is_valid' = [is_valid EXCEPT ![i][j] = TRUE]
            /\ entered' = [entered EXCEPT ![i][j] = FALSE]
       ELSE /\ val' = r.val
            /\ is_valid' = is_valid
            /\ entered' = entered
    /\ own_fail' = [own_fail EXCEPT ![i][j] = FALSE]

\* Activate without line 227: the old active cell stays active
Activate_NoDeactivate(act, old, p) == [act EXCEPT ![p[1]][p[2]] = TRUE]

\* lines 227 and 233-234: the is_active flags after the click on cell p, the
\* active cell being old (None or a position)
Activate(act, old, p) ==
    LET off == IF old = None THEN act
               ELSE [act EXCEPT ![old[1]][old[2]] = FALSE]
    IN [off EXCEPT ![p[1]][p[2]] = TRUE]

\* handle_user_input, MOUSEBUTTONDOWN with button 1 at a point of some cell
\* p, the generator in state g (the cells' rectangles are disjoint: the
\* point is in at most one cell)
MouseDown(g) ==
    /\ pc = "play"
    /\ IF active_cell = None
       THEN /\ \E p \in Pos :
                 /\ is_active' = Activate(is_active, active_cell, p)
                 /\ active_cell' = p
            /\ UNCHANGED <<val, is_valid, ret, own_fail, entered>>
       ELSE LET i == active_cell[1]
                j == active_cell[2]
                r == is_possible_sudoku_table(val, g)
            IN /\ ClearActive(i, j, r)
               /\ \E p \in Pos :
                    /\ is_active' = Activate(is_active, active_cell, p)
                    /\ active_cell' = p
    /\ last_event' = "click"
    /\ UNCHANGED <<is_clickable, pc, full, val0, stack, rng>>

\* handle_user_input, MOUSEBUTTONDOWN with button 1 at a point of no cell
MouseMiss ==
    /\ pc = "play"
    /\ UNCHANGED vars

\* handle_user_input, event.type == pygame.QUIT
Quit ==
    /\ pc = "play"
    /\ pc' = "quit"
    /\ UNCHANGED <<val, is_clickable, is_active, is_valid, active_cell, ret,
                   full, val0, own_fail, entered, last_event, stack, rng>>

Next ==
    \/ \E g \in Seeds : GenerateTable(g)
    \/ \E key \in Keys, g \in Seeds : KeyDown(key, g)
    \/ KeyIgnored
    \/ \E g \in Seeds : MouseDown(g)
    \/ MouseMiss
    \/ Quit

Spec == Init /\ [][Next]_vars

\* ------------------------------------------------------------ reference
\* two distinct positions that share a row, a column or a block
SameUnit(p, q) ==
    /\ p # q
    /\ \/ p[1] = q[1]
       \/ p[2] = q[2]
       \/ /\ p[1] \div BLOCK = q[1] \div BLOCK
          /\ p[2] \div BLOCK = q[2] \div BLOCK

\* no two non-empty cells that share a unit hold the same value
NoDuplicate(t) ==
    \A p \in Pos, q \in Pos :
        (SameUnit(p, q) /\ t[p[1]][p[2]] # EMPTY_VAL /\ t[q[1]][q[2]] # EMPTY_VAL)
            => t[p[1]][p[2]] # t[q[1]][q[2]]

\* the rows that hold every digit once
RowPerms == {r \in [Idx -> Digits] : \A a \in Idx, b \in Idx : a # b => r[a] # r[b]}

\* row r can follow the rows s (a sequence) in a grid without a duplicate in
\* a column or a block
Fits(s, r) ==
    \A k \in 1 .. Len(s) : \A a \in Idx, b \in Idx :
        (a = b \/ ((k - 1) \div BLOCK = Len(s) \div BLOCK /\ a \div BLOCK = b \div BLOCK))
            => s[k][a] # r[b]

RECURSIVE FirstRows(_)
\* the sequences of n rows without a duplicate in a row, a column or a block
FirstRows(n) ==
    IF n = 0 THEN {<<>>}
    ELSE {Append(x[1], x[2]) : x \in {y \in FirstRows(n - 1) \X RowPerms : Fits(y[1], y[2])}}

\* every full grid of digits without a duplicate in a row, a column or a block
AllSolutions == {[i \in Idx |-> s[i + 1]] : s \in FirstRows(N)}

\* some assignment of digits to the empty cells of t, the filled cells kept,
\* has no duplicate in a row, a column or a block
Completable(t) ==
    \E s \in AllSolutions :
        \A i \in Idx, j \in Idx : t[i][j] = EMPTY_VAL \/ t[i][j] = s[i][j]

\* the positions of the empty cells of t
EmptyCells(t) == {p \in Pos : t[p[1]][p[2]] = EMPTY_VAL}

\* ------------------------------------------------------------ calls on boards
\* The two pure checks, each applied once to a board drawn from a family:
\* the grid the generator makes from seed g, with at most MaxBlank cells
\* emptied and then, or not, the first of the emptied cells (in row-major
\* order) given any digit.

RECURSIVE Emptied(_, _)
\* t with the cells of the set E set to EMPTY_VAL
Emptied(t, E) ==
    IF E = {} THEN t
    ELSE LET p == CHOOSE q \in E : TRUE
         IN Emptied([t EXCEPT ![p[1]][p[2]] = EMPTY_VAL], E \ {p})

\* the first position of the non-empty set E in row-major order
FirstOf(E) == CHOOSE p \in E : \A q \in E : p[1] * N + p[2] <= q[1] * N + q[2]

BoardsFrom(t) ==
    LET sets == {F \in SUBSET Pos : Cardinality(F) <= MaxBlank}
    IN {Emptied(t, E) : E \in sets} \cup
       {[Emptied(t, E) EXCEPT ![FirstOf(E)[1]][FirstOf(E)[2]] = d] :
            E \in sets \ {{}}, d \in Digits}

BoardInit ==
    /\ \E g \in Seeds :
          LET r == get_random_table(NewVal, 0, 0, g)
          IN /\ full = r.val
             /\ rng = r.rng
             /\ val \in BoardsFrom(r.val)
    /\ val0 = val
    /\ is_clickable = AllCells(TRUE)
    /\ is_active = AllCells(FALSE)
    /\ is_valid = AllCells(TRUE)
    /\ active_cell = None
    /\ pc = "board"
    /\ ret = <<>>
    /\ own_fail = AllCells(FALSE)
    /\ entered = AllCells(FALSE)
    /\ last_event = "none"
    /\ stack = <<>>

\* a call of Game.is_sudoku_valid
CallValid ==
    /\ pc = "board"
    /\ ret' = <<is_sudoku_valid(val)>>
    /\ pc' = "valid_done"
    /\ UNCHANGED <<val, is_clickable, is_active, is_valid, active_cell, full,
                   val0, own_fail, entered, last_event, stack, rng>>

\* a call of Game.is_possible_sudoku_table
CallSolvable ==
    /\ pc = "board"
    /\ LET r == is_possible_sudoku_table(val, rng)
       IN /\ val' = r.val
          /\ ret' = <<r.ret>>
          /\ rng' = r.rng
    /\ pc' = "solve_done"
    /\ UNCHANGED <<is_clickable, is_active, is_valid, active_cell, full,
                   val0, own_fail, entered, last_event, stack>>

BoardNext == CallValid \/ CallSolvable

BoardSpec == BoardInit /\ [][BoardNext]_vars

\* C4: is_sudoku_valid returns False exactly when two distinct non-empty cells
\* that share a row, a column or a block hold the same value, and it changes
\* no cell
C4_ValidMatchesReference ==
    pc = "valid_done" => (ret = <<NoDuplicate(val0)>> /\ val = val0)

\* a call that returned False on a board with empty cells
C4_Witness ==
    pc = "valid_done" /\ ret = <<FALSE>> /\ Cardinality(EmptyCells(val0)) >= 2

\* C1: when is_possible_sudoku_table returns, every cell's value is the value
\* it had at the call
C1_SolvableKeepsBoard ==
    pc = "solve_done" => val = val0

\* a call that returned True after filling empty cells
C1_Witness ==
    pc = "solve_done" /\ ret = <<TRUE>> /\ Cardinality(EmptyCells(val0)) >= 3

\* C2: is_possible_sudoku_table returns True exactly when the board has a
\* completion without duplicates, whatever the generator's state, and False
\* whenever is_sudoku_valid is False on the board
C2_SolvableDecidesCompletion ==
    pc = "solve_done" =>
        /\ ret = <<Completable(val0)>>
        /\ ~is_sudoku_valid(val0) => ret = <<FALSE>>

\* a call that returned False on a board that passes is_sudoku_valid
C2_Witness ==
    pc = "solve_done" /\ ret = <<FALSE>> /\ is_sudoku_valid(val0)

\* ------------------------------------------------------------ the search, step by step
\* The recursion of backtracing (pc = "solve") and of _get_random_table
\* (pc = "gen") run one step at a time on a stack of frames.  A frame holds
\* the call's i and j, its shuffled vals, the index k of the value being
\* tried, and where the call is: at its "entry", in its for-"loop", or
\* waiting for the call it made ("wait" inside the loop, "skip" at line 116).

\* the frame of a call with arguments (i, j)
Frame(i, j) == [i |-> i, j |-> j, vals |-> <<>>, k |-> 0, at |-> "entry"]

\* Callee that calls at (i, j) again
Callee_SamePos(i, j) == Frame(i, j)

\* the frame of the recursive call made at cell (i, j): backtracing(i, j + 1)
\* and self._get_random_table(i, j + 1)
Callee(i, j) == Frame(i, j + 1)

Top == stack[Len(stack)]

Pop == SubSeq(stack, 1, Len(stack) - 1)

\* the top frame replaced by f
SetTop(f) == [stack EXCEPT ![Len(stack)] = f]

\* return v from the top call; the outermost call's return ends the search
Return(v) ==
    /\ stack' = Pop
    /\ ret' = <<v>>
    /\ pc' = IF Len(stack) = 1
             THEN (IF pc = "gen" THEN "gen_done" ELSE "solve_done")
             ELSE pc

\* lines 108-119 and 151-159: a call from its entry to its first return,
\* call or loop iteration
Enter ==
    /\ pc \in {"gen", "solve"}
    /\ Top.at = "entry"
    /\ LET i == IF Top.j >= N THEN Top.i + 1 ELSE Top.i
           j == IF Top.j >= N THEN 0 ELSE Top.j
       IN IF ~is_sudoku_valid(val)
          THEN Return(FALSE) /\ UNCHANGED <<val, rng>>
          ELSE IF i >= N
          THEN Return(TRUE) /\ UNCHANGED <<val, rng>>
          ELSE IF pc = "solve" /\ ~is_empty(val, i, j)
          THEN /\ stack' = Append(SetTop([Top EXCEPT !.i = i, !.j = j,
                                                     !.at = "skip"]),
                                  Callee(i, j))
               /\ UNCHANGED <<val, rng, ret, pc>>
          ELSE LET sh == Shuffle(RangeVals, rng)
               IN /\ stack' = SetTop([i |-> i, j |-> j, vals |-> sh.seq,
                                      k |-> 1, at |-> "loop"])
                  /\ rng' = sh.rng
                  /\ UNCHANGED <<val, ret, pc>>
    /\ UNCHANGED <<is_clickable, is_active, is_valid, active_cell, full,
                   val0, own_fail, entered, last_event>>

\* lines 120-122 and 160-162: the next value of the loop is assigned and the
\* recursive call made; lines 126 and 165: the loop is over, return False
Loop ==
    /\ pc \in {"gen", "solve"}
    /\ Top.at = "loop"
    /\ IF Top.k > Len(Top.vals)
       THEN Return(FALSE) /\ UNCHANGED val
       ELSE /\ val' = [val EXCEPT ![Top.i][Top.j] = Top.vals[Top.k]]
            /\ stack' = Append(SetTop([Top EXCEPT !.at = "wait"]),
                               Callee(Top.i, Top.j))
            /\ UNCHANGED <<ret, pc>>
    /\ UNCHANGED <<is_clickable, is_active, is_valid, active_cell, full,
                   val0, own_fail, entered, last_event, rng>>

\* lines 122-125 of backtracing: the recursive call of the loop has returned
ResumeSolve ==
    /\ pc = "solve"
    /\ Top.at = "wait"
    /\ val' = [val EXCEPT ![Top.i][Top.j] = EMPTY_VAL]
    /\ IF ret = <<TRUE>>
       THEN Return(TRUE)
       ELSE /\ stack' = SetTop([Top EXCEPT !.k = @ + 1, !.at = "loop"])
            /\ UNCHANGED <<ret, pc>>
    /\ UNCHANGED <<is_clickable, is_active, is_valid, active_cell, full,
                   val0, own_fail, entered, last_event, rng>>

\* ResumeGen without line 164: a value that failed stays in the cell
ResumeGen_NoUndo ==
    /\ pc = "gen"
    /\ Top.at = "wait"
    /\ IF ret = <<TRUE>>
       THEN Return(TRUE)
       ELSE /\ stack' = SetTop([Top EXCEPT !.k = @ + 1, !.at = "loop"])
            /\ UNCHANGED <<ret, pc>>
    /\ UNCHANGED <<val, is_clickable, is_active, is_valid, active_cell, full,
                   val0, own_fail, entered, last_event, rng>>

\* lines 162-164 of _get_random_table: the recursive call has returned
ResumeGen ==
    /\ pc = "gen"
    /\ Top.at = "wait"
    /\ IF ret = <<TRUE>>
       THEN Return(TRUE) /\ UNCHANGED val
       ELSE /\ val' = [val EXCEPT ![Top.i][Top.j] = EMPTY_VAL]
            /\ stack' = SetTop([Top EXCEPT !.k = @ + 1, !.at = "loop"])
            /\ UNCHANGED <<ret, pc>>
    /\ UNCHANGED <<is_clickable, is_active, is_valid, active_cell, full,
                   val0, own_fail, entered, last_event, rng>>

\* line 116: return backtracing(i, j + 1), the call has returned
SkipReturn ==
    /\ pc = "solve"
    /\ Top.at = "skip"
    /\ Return(ret[1])
    /\ UNCHANGED <<val, is_clickable, is_active, is_valid, active_cell, full,
                   val0, own_fail, entered, last_event, rng>>

\* the boards the solvability check is started on: the puzzle generate_table
\* makes from seed g, as it is or with one cell given any digit
PuzzlesFrom(g) ==
    LET t == generate_table(g).val
    IN {t} \cup {[t EXCEPT ![p[1]][p[2]] = d] : p \in Pos, d \in Digits}

\* a call _get_random_table() on the new table, or a call
\* is_possible_sudoku_table() on a puzzle, with the generator in any state
SearchInit ==
    /\ rng \in 0 .. (RngMod - 1)
    /\ \/ pc = "gen" /\ val = NewVal
       \/ pc = "solve" /\ \E g \in Seeds : val \in PuzzlesFrom(g)
    /\ val0 = val
    /\ full = NewVal
    /\ stack = <<Frame(0, 0)>>
    /\ ret = <<>>
    /\ is_clickable = AllCells(TRUE)
    /\ is_active = AllCells(FALSE)
    /\ is_valid = AllCells(TRUE)
    /\ active_cell = None
    /\ own_fail = AllCells(FALSE)
    /\ entered = AllCells(FALSE)
    /\ last_event = "none"

SearchNext == Enter \/ Loop \/ ResumeSolve \/ ResumeGen \/ SkipReturn

\* the interpreter runs the call to its end: a step that can be taken is taken
SearchSpec == SearchInit /\ [][SearchNext]_vars /\ WF_vars(SearchNext)

SearchDone == pc \in {"gen_done", "solve_done"}

\* the values of the cells of block b
BlockVals(t, b) == {t[p[1]][p[2]] : p \in {q \in Pos : BlockOf(q[1], q[2]) = b}}

\* every row, column and block of t holds exactly the digits
FullAndValid(t) ==
    /\ \A i \in Idx : {t[i][j] : j \in Idx} = Digits
    /\ \A j \in Idx : {t[i][j] : i \in Idx} = Digits
    /\ \A b \in Idx : BlockVals(t, b) = Digits

\* C3: _get_random_table called at (0, 0) on the all-empty board returns True,
\* whatever the generator's state, and leaves every row, column and block
\* holding exactly the digits
C3_GenerationSucceeds ==
    pc = "gen_done" => (ret = <<TRUE>> /\ FullAndValid(val))

\* a generation that has returned, from the all-empty board
C3_Witness ==
    pc = "gen_done" /\ val0 = NewVal /\ val \in AllSolutions

\* frame number k of the stack is the call at position k - 1 in row-major
\* order
RowMajor ==
    \A k \in 1 .. Len(stack) : stack[k].i * N + stack[k].j = k - 1

\* C10: both searches return True or False in the end; the calls on the stack
\* are at consecutive row-major positions from (0, 0), and there are never
\* more of them than the cells plus one
C10_SearchTerminates ==
    /\ <>SearchDone
    /\ [](Len(stack) <= N * N + 1 /\ RowMajor)
    /\ [](SearchDone => ret \in {<<TRUE>>, <<FALSE>>})

\* the search at its deepest: one call per cell and the call past the last
C10_Witness ==
    Len(stack) = N * N + 1 /\ pc = "solve"

\* ------------------------------------------------------------ claims on the game
Givens == {p \in Pos : ~is_clickable[p[1]][p[2]]}

\* C5: once generate_table has finished, every cell that is not clickable
\* holds the non-empty value it held then
C5_GivensKept ==
    pc # "init" =>
        \A p \in Givens :
            val[p[1]][p[2]] = val0[p[1]][p[2]] /\ val[p[1]][p[2]] # EMPTY_VAL

\* a given is the active cell, after a click whose solvability check failed
C5_Witness ==
    /\ active_cell \in Givens
    /\ last_event = "click"
    /\ ret = <<FALSE>>

\* C6: when generate_table finishes, exactly keep_num_of_cells cells are not
\* clickable and hold the generator's digit, the others are clickable and
\* EMPTY, and the puzzle passes is_sudoku_valid and has a completion
C6_MaskKeepsK ==
    last_event = "generate" =>
        /\ Cardinality(Givens) = keep_num_of_cells
        /\ \A p \in Givens :
              val[p[1]][p[2]] = full[p[1]][p[2]] /\ val[p[1]][p[2]] \in Digits
        /\ \A p \in Pos \ Givens : val[p[1]][p[2]] = EMPTY_VAL
        /\ is_sudoku_valid(val)
        /\ Completable(val)

\* generate_table has finished
C6_Witness ==
    last_event = "generate" /\ pc = "play" /\ Givens # {} /\ Givens # Pos

\* C7 as stated: a cell's is_valid is False exactly when the most recent
\* solvability check run after the cell's latest edit returned False (for
\* the cells whose latest edit is a digit the player entered; every such
\* edit is followed by a check in the same handler, so the most recent check
\* of all, whose result is ret, is one run after it)
C7_AnyLaterCheck ==
    \A i \in Idx, j \in Idx :
        (is_valid[i][j] = FALSE) <=> (entered[i][j] /\ ret = <<FALSE>>)

\* C7 amended: a cell's is_valid is False exactly when the most recent
\* solvability check that a handler ran for this cell, as the active cell,
\* after the cell's latest edit returned False
C7_OwnCheck ==
    \A i \in Idx, j \in Idx : (is_valid[i][j] = FALSE) <=> own_fail[i][j]

\* a key press left the active cell not valid
C7_Witness ==
    /\ last_event = "key"
    /\ CanEdit
    /\ ~is_valid[active_cell[1]][active_cell[2]]
    /\ \E p \in Pos \ {active_cell} : entered[p[1]][p[2]]

\* C8: a cell is active exactly when it is the cell active_cell refers to, so
\* at most one is; and the is_clickable flags stay those of the mask
C8_OneActive ==
    pc # "init" =>
        /\ \A p \in Pos : is_active[p[1]][p[2]] <=> (p = active_cell)
        /\ \A p \in Pos : is_clickable[p[1]][p[2]] <=> (val0[p[1]][p[2]] = EMPTY_VAL)

\* the active cell has moved from one cell to another
C8_Witness ==
    /\ active_cell # None
    /\ is_active[active_cell[1]][active_cell[2]]
    /\ \E p \in Pos \ {active_cell} : entered[p[1]][p[2]]

AllValid == \A i \in Idx, j \in Idx : is_valid[i][j]

\* a click on a cell, handled with an active cell: the handler's check
\* returned ret', and only on False was the active cell, and it alone,
\* reset to EMPTY_VAL with is_valid True
ClickResets ==
    (pc = "play" /\ pc' = "play" /\ last_event' = "click" /\ active_cell # None)
        => LET i == active_cell[1]
               j == active_cell[2]
           IN IF ret' = <<TRUE>>
              THEN val' = val /\ is_valid' = is_valid
              ELSE /\ val' = [val EXCEPT ![i][j] = EMPTY_VAL]
                   /\ is_valid' = [is_valid EXCEPT ![i][j] = TRUE]

\* C9: after a click on a cell the board has a completion and every cell is
\* valid; the click resets the previously active cell, and no other, when
\* the board had none; a board without completion is only seen after a key
\* press on the active clickable cell and before the next click
C9_ClickRestores ==
    /\ [](last_event = "click" => (Completable(val) /\ AllValid))
    /\ [][ClickResets]_vars
    /\ []((pc # "init" /\ ~Completable(val)) => (last_event = "key" /\ CanEdit))

\* a click has reset the cell that made the board unsolvable
C9_Witness ==
    last_event = "click" /\ ret = <<FALSE>> /\ Completable(val) /\ AllValid
=============================================================================
